---- MODULE Spec2Model ----
(***************************************************************************)
(* A model of the technical-analysis engine of buy_signal: the indicator   *)
(* functions (calculateEMA, calculateVWAP, calculateMACD), the zone        *)
(* detector with its consolidation, the EMA-bounce scan, the zone-signal   *)
(* detector and TechnicalAnalysisService.analyzeData.                      *)
(*                                                                         *)
(* Numbers.  The source computes on IEEE doubles obtained by parseFloat    *)
(* from decimal strings.  Here a number is an integer counting 1/Scale,    *)
(* a decimal string is the integer of its tenths ("100.5" is 1005), and a  *)
(* division rounds toward minus infinity.  Arrays of the source are        *)
(* sequences; the source's zero-based index k is position k + 1.           *)
(***************************************************************************)
EXTENDS Integers, Sequences, FiniteSets, TLC

VARIABLES
  entry,                \* the exported function that was called
  pc,                   \* position inside the call
  klineData,            \* argument: the candles
  zonesArg,             \* argument of a direct detectSupplyDemandSignals call
  cfg,                  \* arguments fastLen .. maxWait of detectEMABounceSignal
  now,                  \* the wall clock read by Date.now()
  emaData, vwapData, macdData,          \* analyzeData's indicator series
  supplyDemandZones,    \* result of detectSupplyDemandZones
  emaBounceSignals,     \* the signals list of detectEMABounceSignal
  supplyDemandSignals,  \* result of detectSupplyDemandSignals
  allSignals,           \* analyzeData's merged list
  scan,                 \* detectEMABounceSignal's arrays: ema9, ema20, ema200, macdData, minLength, startIndex
  i,                    \* the scan's loop index
  waitBounce, barsWaited,               \* the scan's wait state
  step,                 \* the locals of the scan's last iteration
  ctx,                  \* arguments exchange, tradingType, symbol, timeframe of analyzeData
  fault,                \* "none", or the fault that ended the call
  prior,                \* the bundles earlier calls returned for the same arguments
  args,                 \* arguments of a direct calculateEMA or calculateMACD call
  emaValues             \* result of a direct calculateEMA call

vars == <<args, emaValues, entry, pc, klineData, zonesArg, cfg, now, emaData, vwapData, macdData,
          supplyDemandZones, emaBounceSignals, supplyDemandSignals, allSignals,
          scan, i, waitBounce, barsWaited, step, ctx, fault, prior>>

----------------------------------------------------------------------------
(* Numbers *)

Scale == 100

Min2(a, b) == IF a <= b THEN a ELSE b
Max2(a, b) == IF a >= b THEN a ELSE b
Abs(a) == IF a >= 0 THEN a ELSE 0 - a

\* a * b for two numbers
Mul(a, b) == (a * b) \div Scale

\* a / b for two numbers, b > 0 (quotient and remainder apart, to stay in range)
DivPos(a, b) == (a \div b) * Scale + ((a % b) * Scale) \div b

\* a / b for two numbers, b # 0
Div(a, b) == IF b > 0 THEN DivPos(a, b) ELSE DivPos(0 - a, 0 - b)

\* the number n
NumOf(n) == n * Scale

\* parseFloat on a decimal string with one decimal place
ParseFloat(s) == s * (Scale \div 10)

\* array[k] of the source
At(arr, k) == arr[k + 1]

InRange(arr, k) == k >= 0 /\ k < Len(arr)

----------------------------------------------------------------------------
(* Indicators *)

(* A loop of the source over the indices lo .. hi - 1 is an operator that runs   *)
(* the first half of the range and then the second half on its result: the      *)
(* iterations happen in index order, and the evaluation stays shallow.          *)

\* y, once x has been evaluated
After(x, y) == IF x = x THEN y ELSE y

\* data.slice(lo, hi).reduce((sum, val) => sum + val, 0)
RECURSIVE SumRange(_, _, _)
SumRange(data, lo, hi) ==
  IF lo >= hi THEN 0
  ELSE IF hi - lo = 1 THEN At(data, lo)
  ELSE SumRange(data, lo, (lo + hi) \div 2) + SumRange(data, (lo + hi) \div 2, hi)

\* (the weights of the new value and of the previous average exchanged)
EMAStepWeightsSwapped(data, period, k, ema) ==
  Append(ema, (At(data, k) * (period - 1) + ema[Len(ema)] * 2) \div (period + 1))

\* (the multiplier taken as 2 / period)
EMAStepWrongMultiplier(data, period, k, ema) ==
  Append(ema, (At(data, k) * 2 + ema[Len(ema)] * (period - 1)) \div period)

\* the body of calculateEMA's loop
EMAStep(data, period, k, ema) ==
  Append(ema, (At(data, k) * 2 + ema[Len(ema)] * (period - 1)) \div (period + 1))

RECURSIVE EMALoop(_, _, _, _, _)
EMALoop(data, period, lo, hi, ema) ==
  IF lo >= hi THEN ema
  ELSE IF hi - lo = 1 THEN EMAStep(data, period, lo, ema)
  ELSE LET first == EMALoop(data, period, lo, (lo + hi) \div 2, ema)
       IN After(first, EMALoop(data, period, (lo + hi) \div 2, hi, first))

\* (the first value averages one element too few: slice(0, period - 1))
calculateEMAShortSeed(data, period) ==
  IF Len(data) < period THEN << >>
  ELSE EMALoop(data, period, period, Len(data),
               << SumRange(data, 0, period - 1) \div period >>)

calculateEMA(data, period) ==
  IF Len(data) < period THEN << >>
  ELSE EMALoop(data, period, period, Len(data),
               << SumRange(data, 0, period) \div period >>)

\* (without volume so far the point is 0, not the typical price)
VWAPStepZeroFallback(candle, st) ==
  LET high == ParseFloat(candle.high)
      low == ParseFloat(candle.low)
      close == ParseFloat(candle.close)
      volume == ParseFloat(candle.volume)
      typicalPrice == (high + low + close) \div 3
      tpv == Mul(typicalPrice, volume)
      cTPV == st.cumulativeTPV + tpv
      cVol == st.cumulativeVolume + volume
      vwap == IF cVol > 0 THEN Div(cTPV, cVol) ELSE 0
  IN [cumulativeTPV |-> cTPV, cumulativeVolume |-> cVol,
      vwapData |-> Append(st.vwapData,
                          [timestamp |-> candle.closeTime, vwap |-> vwap,
                           volume |-> volume])]

\* the body of calculateVWAP's loop; st holds cumulativeTPV, cumulativeVolume, vwapData
VWAPStep(candle, st) ==
  LET high == ParseFloat(candle.high)
      low == ParseFloat(candle.low)
      close == ParseFloat(candle.close)
      volume == ParseFloat(candle.volume)
      typicalPrice == (high + low + close) \div 3
      tpv == Mul(typicalPrice, volume)
      cTPV == st.cumulativeTPV + tpv
      cVol == st.cumulativeVolume + volume
      vwap == IF cVol > 0 THEN Div(cTPV, cVol) ELSE typicalPrice
  IN [cumulativeTPV |-> cTPV, cumulativeVolume |-> cVol,
      vwapData |-> Append(st.vwapData,
                          [timestamp |-> candle.closeTime, vwap |-> vwap,
                           volume |-> volume])]

RECURSIVE VWAPLoop(_, _, _, _)
VWAPLoop(kl, lo, hi, st) ==
  IF lo >= hi THEN st
  ELSE IF hi - lo = 1 THEN VWAPStep(At(kl, lo), st)
  ELSE LET first == VWAPLoop(kl, lo, (lo + hi) \div 2, st)
       IN After(first, VWAPLoop(kl, (lo + hi) \div 2, hi, first))

calculateVWAP(kl) ==
  VWAPLoop(kl, 0, Len(kl),
           [cumulativeTPV |-> 0, cumulativeVolume |-> 0, vwapData |-> << >>]).vwapData

MinuteMs == 60000

\* (the fast series is not shifted by slowPeriod - fastPeriod)
calculateMACDUnaligned(prices, fastPeriod, slowPeriod, signalPeriod, t) ==
  LET fastEMA == calculateEMA(prices, fastPeriod)
      slowEMA == calculateEMA(prices, slowPeriod)
  IN IF Len(fastEMA) = 0 \/ Len(slowEMA) = 0 THEN << >>
     ELSE
       LET macdLine == [k \in 1..Len(slowEMA) |-> fastEMA[k] - slowEMA[k]]
           signalLine == calculateEMA(macdLine, signalPeriod)
           signalStartIndex == Len(macdLine) - Len(signalLine)
       IN [k \in 1..Len(signalLine) |->
             [timestamp |-> t - (Len(signalLine) - (k - 1) - 1) * MinuteMs,
              macd |-> macdLine[k + signalStartIndex],
              signal |-> signalLine[k],
              histogram |-> macdLine[k + signalStartIndex] - signalLine[k]]]

\* calculateMACD reading Date.now() as t
calculateMACD(prices, fastPeriod, slowPeriod, signalPeriod, t) ==
  LET fastEMA == calculateEMA(prices, fastPeriod)
      slowEMA == calculateEMA(prices, slowPeriod)
  IN IF Len(fastEMA) = 0 \/ Len(slowEMA) = 0 THEN << >>
     ELSE
       LET startIndex == slowPeriod - fastPeriod
           macdLine == [k \in 1..Len(slowEMA) |->
                          fastEMA[k + startIndex] - slowEMA[k]]
           signalLine == calculateEMA(macdLine, signalPeriod)
           signalStartIndex == Len(macdLine) - Len(signalLine)
       IN [k \in 1..Len(signalLine) |->
             [timestamp |-> t - (Len(signalLine) - (k - 1) - 1) * MinuteMs,
              macd |-> macdLine[k + signalStartIndex],
              signal |-> signalLine[k],
              histogram |-> macdLine[k + signalStartIndex] - signalLine[k]]]

closePrices(kl) == [k \in 1..Len(kl) |-> ParseFloat(kl[k].close)]

----------------------------------------------------------------------------
(* Zones *)

getZoneStrengthValue(strength) ==
  CASE strength = "weak" -> 1
    [] strength = "medium" -> 2
    [] strength = "strong" -> 3

Zone(type, high, low, timestamp, strength, zoneType) ==
  [type |-> type, high |-> high, low |-> low, timestamp |-> timestamp,
   strength |-> strength, zoneType |-> zoneType, isValid |-> TRUE]

\* (the band starts at the current candle's low, the previous low is ignored)
bullishEngulfingCurrentLow(current, prev) ==
  LET currentHigh == ParseFloat(current.high)
      currentLow == ParseFloat(current.low)
      currentOpen == ParseFloat(current.open)
      currentClose == ParseFloat(current.close)
      prevHigh == ParseFloat(prev.high)
      prevClose == ParseFloat(prev.close)
  IN IF prevClose < currentOpen /\ currentClose > prevHigh
     THEN << Zone("demand", currentHigh, currentLow,
                  current.closeTime, "strong", "DBR") >>
     ELSE << >>

bullishEngulfing(current, prev) ==
  LET currentHigh == ParseFloat(current.high)
      currentLow == ParseFloat(current.low)
      currentOpen == ParseFloat(current.open)
      currentClose == ParseFloat(current.close)
      prevHigh == ParseFloat(prev.high)
      prevLow == ParseFloat(prev.low)
      prevClose == ParseFloat(prev.close)
  IN IF prevClose < currentOpen /\ currentClose > prevHigh
     THEN << Zone("demand", currentHigh, Min2(currentLow, prevLow),
                  current.closeTime, "strong", "DBR") >>
     ELSE << >>

bearishEngulfing(current, prev) ==
  LET currentHigh == ParseFloat(current.high)
      currentLow == ParseFloat(current.low)
      currentOpen == ParseFloat(current.open)
      currentClose == ParseFloat(current.close)
      prevHigh == ParseFloat(prev.high)
      prevLow == ParseFloat(prev.low)
      prevClose == ParseFloat(prev.close)
  IN IF prevClose > currentOpen /\ currentClose < prevLow
     THEN << Zone("supply", Max2(currentHigh, prevHigh), currentLow,
                  current.closeTime, "strong", "RBD") >>
     ELSE << >>

\* (the band's ends exchanged)
bullishPinBarSwapped(current) ==
  LET currentHigh == ParseFloat(current.high)
      currentLow == ParseFloat(current.low)
      currentOpen == ParseFloat(current.open)
      currentClose == ParseFloat(current.close)
      bodySize == Abs(currentClose - currentOpen)
      upperWick == currentHigh - Max2(currentOpen, currentClose)
      lowerWick == Min2(currentOpen, currentClose) - currentLow
      totalRange == currentHigh - currentLow
  IN IF lowerWick > bodySize * 2 /\ lowerWick > upperWick * 2 /\ totalRange > 0
     THEN << Zone("demand", currentLow, Max2(currentOpen, currentClose),
                  current.closeTime,
                  IF lowerWick > bodySize * 3 THEN "strong" ELSE "medium",
                  "DBR") >>
     ELSE << >>

bullishPinBar(current) ==
  LET currentHigh == ParseFloat(current.high)
      currentLow == ParseFloat(current.low)
      currentOpen == ParseFloat(current.open)
      currentClose == ParseFloat(current.close)
      bodySize == Abs(currentClose - currentOpen)
      upperWick == currentHigh - Max2(currentOpen, currentClose)
      lowerWick == Min2(currentOpen, currentClose) - currentLow
      totalRange == currentHigh - currentLow
  IN IF lowerWick > bodySize * 2 /\ lowerWick > upperWick * 2 /\ totalRange > 0
     THEN << Zone("demand", Max2(currentOpen, currentClose), currentLow,
                  current.closeTime,
                  IF lowerWick > bodySize * 3 THEN "strong" ELSE "medium",
                  "DBR") >>
     ELSE << >>

bearishPinBar(current) ==
  LET currentHigh == ParseFloat(current.high)
      currentLow == ParseFloat(current.low)
      currentOpen == ParseFloat(current.open)
      currentClose == ParseFloat(current.close)
      bodySize == Abs(currentClose - currentOpen)
      upperWick == currentHigh - Max2(currentOpen, currentClose)
      lowerWick == Min2(currentOpen, currentClose) - currentLow
      totalRange == currentHigh - currentLow
  IN IF upperWick > bodySize * 2 /\ upperWick > lowerWick * 2 /\ totalRange > 0
     THEN << Zone("supply", currentHigh, Min2(currentOpen, currentClose),
                  current.closeTime,
                  IF upperWick > bodySize * 3 THEN "strong" ELSE "medium",
                  "RBD") >>
     ELSE << >>

\* the candidates pushed for the candle at index k, in push order
candidatesAt(kl, k) ==
  LET current == At(kl, k)
      prev == At(kl, k - 1)
  IN bullishEngulfing(current, prev) \o bearishEngulfing(current, prev)
     \o bullishPinBar(current) \o bearishPinBar(current)

\* the detection loop over the indices lo .. hi - 1
RECURSIVE zoneCandidates(_, _, _)
zoneCandidates(kl, lo, hi) ==
  IF lo >= hi THEN << >>
  ELSE IF hi - lo = 1 THEN candidatesAt(kl, lo)
  ELSE zoneCandidates(kl, lo, (lo + hi) \div 2)
       \o zoneCandidates(kl, (lo + hi) \div 2, hi)

zonesOverlap(zone, existingZone) ==
  /\ zone.type = existingZone.type
  /\ zone.low <= existingZone.high
  /\ zone.high >= existingZone.low

\* the inner loop of consolidateZones: the index (from the back) of the first
\* overlapping accepted zone, or -1
RECURSIVE firstOverlap(_, _, _)
firstOverlap(acc, zone, k) ==
  IF k < 0 THEN 0 - 1
  ELSE IF zonesOverlap(zone, At(acc, k)) THEN k
  ELSE firstOverlap(acc, zone, k - 1)

\* one iteration of the outer loop of consolidateZones
consolidateOne(acc, zone) ==
  LET k == firstOverlap(acc, zone, Len(acc) - 1)
  IN IF k < 0 THEN Append(acc, zone)
     ELSE IF getZoneStrengthValue(zone.strength)
               > getZoneStrengthValue(At(acc, k).strength)
          THEN [acc EXCEPT ![k + 1] = zone]
          ELSE acc

RECURSIVE consolidateLoop(_, _, _, _)
consolidateLoop(zones, lo, hi, acc) ==
  IF lo >= hi THEN acc
  ELSE IF hi - lo = 1 THEN consolidateOne(acc, At(zones, lo))
  ELSE LET first == consolidateLoop(zones, lo, (lo + hi) \div 2, acc)
       IN After(first, consolidateLoop(zones, (lo + hi) \div 2, hi, first))

\* the list consolidateZones holds before its slice
consolidated(zones) == consolidateLoop(zones, 0, Len(zones), << >>)

MaxZones == 20

\* Array.prototype.slice(-n)
sliceLast(arr, n) ==
  IF Len(arr) <= n THEN arr ELSE SubSeq(arr, Len(arr) - n + 1, Len(arr))

\* (the list is returned without the cut to the last MaxZones)
consolidateZonesNoLimit(zones) == consolidated(zones)

consolidateZones(zones) == sliceLast(consolidated(zones), MaxZones)

MinZoneCandles == 10

detectSupplyDemandZones(kl) ==
  IF Len(kl) < MinZoneCandles THEN << >>
  ELSE consolidateZones(zoneCandidates(kl, 2, Len(kl) - 2))

----------------------------------------------------------------------------
(* EMA bounce *)

\* (no clamp, and the bounce quality added instead of subtracted)
calculateSignalConfidenceUnclamped(factors) ==
  LET c1 == IF factors.bullStack THEN NumOf(25) ELSE 0
      c2 == IF factors.priceAboveVWAP THEN NumOf(20) ELSE 0
      c3 == IF factors.macdBull THEN NumOf(20) ELSE 0
      c4 == IF factors.volumeConfirmation THEN NumOf(15) ELSE 0
      c5 == Max2(0, NumOf(20) + factors.bounceQuality * 100)
  IN c1 + c2 + c3 + c4 + c5

calculateSignalConfidence(factors) ==
  LET c1 == IF factors.bullStack THEN NumOf(25) ELSE 0
      c2 == IF factors.priceAboveVWAP THEN NumOf(20) ELSE 0
      c3 == IF factors.macdBull THEN NumOf(20) ELSE 0
      c4 == IF factors.volumeConfirmation THEN NumOf(15) ELSE 0
      c5 == Max2(0, NumOf(20) - factors.bounceQuality * 100)
  IN Min2(NumOf(100), Max2(0, c1 + c2 + c3 + c4 + c5))

\* detectEMABounceSignal up to its loop: the arrays and the alignment
scanMinLengthOfVwap(ema200, macd, vwap) == Len(vwap)

scanMinLength(ema200, macd, vwap) == Min2(Len(ema200), Min2(Len(macd), Len(vwap)))

scanSetup(kl, vwap, c, t) ==
  LET prices == closePrices(kl)
      ema9 == calculateEMA(prices, c.fastLen)
      ema20 == calculateEMA(prices, c.medLen)
      ema200 == calculateEMA(prices, c.slowLen)
      macd == calculateMACD(prices, c.macdFast, c.macdSlow, c.macdSig, t)
      minLength == scanMinLength(ema200, macd, vwap)
  IN [ema9 |-> ema9, ema20 |-> ema20, ema200 |-> ema200, macdData |-> macd,
      minLength |-> minLength, startIndex |-> Len(kl) - minLength]

\* the index of macdData read at loop index k
scanMacdIndex(sc, k) == k

\* every element the iteration at loop index k reads is in range
scanReadsInRange(kl, sc, k) ==
  /\ InRange(kl, sc.startIndex + k)
  /\ InRange(sc.ema9, Len(sc.ema9) - sc.minLength + k)
  /\ InRange(sc.ema20, Len(sc.ema20) - sc.minLength + k)
  /\ InRange(sc.ema200, k)
  /\ InRange(sc.ema9, Len(sc.ema9) - sc.minLength + k - 1)
  /\ InRange(sc.ema20, Len(sc.ema20) - sc.minLength + k - 1)
  /\ InRange(sc.macdData, scanMacdIndex(sc, k))

\* (the bar count is compared before it is incremented)
armAndAbortLate(wait, bars, emaCrossUp, bullStack, maxWait) ==
  LET w1 == IF emaCrossUp THEN TRUE ELSE wait
      b1 == IF emaCrossUp THEN 0 ELSE IF wait THEN bars + 1 ELSE bars
  IN IF ~bullStack \/ (maxWait > 0 /\ bars > maxWait)
     THEN [waitBounce |-> FALSE, barsWaited |-> 0]
     ELSE [waitBounce |-> w1, barsWaited |-> b1]

\* (the wait never times out)
armAndAbortNoLimit(wait, bars, emaCrossUp, bullStack, maxWait) ==
  LET w1 == IF emaCrossUp THEN TRUE ELSE wait
      b1 == IF emaCrossUp THEN 0 ELSE IF wait THEN bars + 1 ELSE bars
  IN IF ~bullStack
     THEN [waitBounce |-> FALSE, barsWaited |-> 0]
     ELSE [waitBounce |-> w1, barsWaited |-> b1]

\* the wait state after the arm and abort transitions
armAndAbort(wait, bars, emaCrossUp, bullStack, maxWait) ==
  LET w1 == IF emaCrossUp THEN TRUE ELSE wait
      b1 == IF emaCrossUp THEN 0 ELSE IF wait THEN bars + 1 ELSE bars
  IN IF ~bullStack \/ (maxWait > 0 /\ b1 > maxWait)
     THEN [waitBounce |-> FALSE, barsWaited |-> 0]
     ELSE [waitBounce |-> w1, barsWaited |-> b1]

\* the wait state after the signal block
resetOnSignalKeeps(st, buySignal) == st

resetOnSignal(st, buySignal) ==
  IF buySignal THEN [waitBounce |-> FALSE, barsWaited |-> 0] ELSE st

\* (the two filters are left out)
buySignalWithoutFilters(wait, bounce, priceAboveVWAP, macdBull) == wait /\ bounce

\* the condition of the signal block
buySignalWhen(wait, bounce, priceAboveVWAP, macdBull) ==
  wait /\ bounce /\ priceAboveVWAP /\ macdBull

\* one iteration of the loop of detectEMABounceSignal at loop index k
scanIteration(kl, vwap, sc, c, k, wait, bars) ==
  LET current == At(kl, sc.startIndex + k)
      currentClose == ParseFloat(current.close)
      currentLow == ParseFloat(current.low)
      currentEma9 == At(sc.ema9, Len(sc.ema9) - sc.minLength + k)
      currentEma20 == At(sc.ema20, Len(sc.ema20) - sc.minLength + k)
      currentEma200 == At(sc.ema200, k)
      prevEma9 == At(sc.ema9, Len(sc.ema9) - sc.minLength + k - 1)
      prevEma20 == At(sc.ema20, Len(sc.ema20) - sc.minLength + k - 1)
      vwapIndex == Len(vwap) - sc.minLength + k
      currentVwap == IF InRange(vwap, vwapIndex) THEN At(vwap, vwapIndex).vwap ELSE 0
      currentMacd == At(sc.macdData, scanMacdIndex(sc, k))
      bullStack == currentEma9 > currentEma20 /\ currentEma20 > currentEma200
      emaCrossUp == /\ prevEma9 <= prevEma20
                    /\ currentEma9 > currentEma20
                    /\ currentEma9 > currentEma200
      tolPrice == currentEma9 + (currentEma9 * c.tolPct) \div (100 * Scale)
      bounce == currentLow <= tolPrice /\ currentClose > currentEma9
      priceAboveVWAP == currentClose > currentVwap
      macdBull == currentMacd.macd > currentMacd.signal
      st == armAndAbort(wait, bars, emaCrossUp, bullStack, c.maxWait)
      buySignal == buySignalWhen(st.waitBounce, bounce, priceAboveVWAP, macdBull)
      confidence == calculateSignalConfidence(
                      [bullStack |-> bullStack, priceAboveVWAP |-> priceAboveVWAP,
                       macdBull |-> macdBull,
                       bounceQuality |-> Div(tolPrice - currentLow, tolPrice),
                       volumeConfirmation |-> ParseFloat(current.volume) > 0])
  IN [locals |-> [index |-> k, bullStack |-> bullStack, emaCrossUp |-> emaCrossUp,
                  bounce |-> bounce, priceAboveVWAP |-> priceAboveVWAP,
                  macdBull |-> macdBull, buySignal |-> buySignal,
                  waitBefore |-> wait, barsBefore |-> bars],
      signals |-> IF buySignal
                  THEN << [timestamp |-> current.closeTime, type |-> "buy",
                           price |-> currentClose, ema9 |-> currentEma9,
                           ema20 |-> currentEma20, ema200 |-> currentEma200,
                           vwap |-> currentVwap, macdLine |-> currentMacd.macd,
                           macdSignal |-> currentMacd.signal,
                           bullishStack |-> bullStack,
                           priceAboveVWAP |-> priceAboveVWAP,
                           macdBullish |-> macdBull, bounceConfirmed |-> bounce,
                           confidence |-> confidence] >>
                  ELSE << >>,
      waitBounce |-> resetOnSignal(st, buySignal).waitBounce,
      barsWaited |-> resetOnSignal(st, buySignal).barsWaited]

----------------------------------------------------------------------------
(* Zone signals *)

\* (the pattern bonus is added whatever the tag)
getZoneConfidenceAnyTag(zone) ==
  LET base == 50
      s == IF zone.strength = "strong" THEN 30
           ELSE IF zone.strength = "medium" THEN 15 ELSE 0
  IN NumOf(Min2(100, base + s + 20))

getZoneConfidence(zone) ==
  LET base == 50
      s == IF zone.strength = "strong" THEN 30
           ELSE IF zone.strength = "medium" THEN 15 ELSE 0
      r == IF zone.zoneType = "DBR" \/ zone.zoneType = "RBD" THEN 20 ELSE 0
  IN NumOf(Min2(100, base + s + r))

\* x / y where y may be zero (the source then yields Infinity or NaN)
Ratio(x, y) == IF y = 0 THEN "NotFinite" ELSE Div(x, y)

\* the body of the inner loop of detectSupplyDemandSignals
zoneSignal(candle, zone) ==
  LET currentPrice == ParseFloat(candle.close)
      currentLow == ParseFloat(candle.low)
      currentHigh == ParseFloat(candle.high)
      priceInZone == currentLow <= zone.high /\ currentHigh >= zone.low
  IN IF ~zone.isValid \/ ~priceInZone THEN << >>
     ELSE IF zone.type = "demand" /\ currentPrice > zone.low
     THEN LET stopLoss == (zone.low * 99) \div 100
              takeProfit == zone.high + (zone.high - zone.low) * 2
          IN << [timestamp |-> candle.closeTime, type |-> "buy",
                 price |-> currentPrice, zone |-> zone,
                 entryReason |-> <<"Price bounced from", zone.zoneType, "demand zone">>,
                 stopLoss |-> stopLoss, takeProfit |-> takeProfit,
                 riskReward |-> Ratio(takeProfit - currentPrice, currentPrice - stopLoss),
                 confidence |-> getZoneConfidence(zone)] >>
     ELSE IF zone.type = "supply" /\ currentPrice < zone.high
     THEN LET stopLoss == (zone.high * 101) \div 100
              takeProfit == zone.low - (zone.high - zone.low) * 2
          IN << [timestamp |-> candle.closeTime, type |-> "sell",
                 price |-> currentPrice, zone |-> zone,
                 entryReason |-> <<"Price rejected from", zone.zoneType, "supply zone">>,
                 stopLoss |-> stopLoss, takeProfit |-> takeProfit,
                 riskReward |-> Ratio(currentPrice - takeProfit, stopLoss - currentPrice),
                 confidence |-> getZoneConfidence(zone)] >>
     ELSE << >>

RECURSIVE zoneLoop(_, _, _, _)
zoneLoop(candle, zones, z, signals) ==
  IF z >= Len(zones) THEN signals
  ELSE zoneLoop(candle, zones, z + 1, signals \o zoneSignal(candle, At(zones, z)))

RECURSIVE candleLoop(_, _, _, _)
candleLoop(recentCandles, zones, lo, hi) ==
  IF lo >= hi THEN << >>
  ELSE IF hi - lo = 1 THEN zoneLoop(At(recentCandles, lo), zones, 0, << >>)
  ELSE candleLoop(recentCandles, zones, lo, (lo + hi) \div 2)
       \o candleLoop(recentCandles, zones, (lo + hi) \div 2, hi)

RecentCandles == 50

\* (every candle, not the last 50)
recentOfAll(kl) == kl

recentOf(kl) == sliceLast(kl, RecentCandles)

detectSupplyDemandSignals(kl, zones) ==
  IF Len(kl) = 0 \/ Len(zones) = 0 THEN << >>
  ELSE candleLoop(recentOf(kl), zones, 0, Len(recentOf(kl)))

----------------------------------------------------------------------------
(* analyzeData *)

DefaultFastLen == 9
DefaultMedLen == 20
DefaultSlowLen == 200
DefaultMacdFast == 12
DefaultMacdSlow == 26
DefaultMacdSig == 9
DefaultTolPct == 5
DefaultMaxWait == 30

\* the default arguments of detectEMABounceSignal (tolPct 0.05 as a number)
DefaultCfg ==
  [fastLen |-> DefaultFastLen, medLen |-> DefaultMedLen, slowLen |-> DefaultSlowLen,
   macdFast |-> DefaultMacdFast, macdSlow |-> DefaultMacdSlow,
   macdSig |-> DefaultMacdSig, tolPct |-> DefaultTolPct, maxWait |-> DefaultMaxWait]

\* analyzeData's emaData
buildEmaData(kl) ==
  LET prices == closePrices(kl)
      ema9 == calculateEMA(prices, DefaultFastLen)
      ema20 == calculateEMA(prices, DefaultMedLen)
      ema200 == calculateEMA(prices, DefaultSlowLen)
      minLength == Min2(Len(ema9), Min2(Len(ema20), Len(ema200)))
      startIndex == Len(kl) - minLength
  IN [k \in 1..minLength |->
        [timestamp |-> At(kl, startIndex + k - 1).closeTime,
         ema9 |-> At(ema9, Len(ema9) - minLength + k - 1),
         ema20 |-> At(ema20, Len(ema20) - minLength + k - 1),
         ema200 |-> At(ema200, k - 1)]]

tradingSignal(tag, strategy, signal, c) ==
  [id |-> <<tag, signal.timestamp>>, symbol |-> c.symbol, exchange |-> c.exchange,
   tradingType |-> c.tradingType, timeframe |-> c.timeframe,
   timestamp |-> signal.timestamp, type |-> signal.type, price |-> signal.price,
   strategy |-> strategy, signalData |-> signal, isActive |-> TRUE,
   confidence |-> signal.confidence]

combineSignals(bounceSignals, zoneSignals, c) ==
  [k \in 1..Len(bounceSignals) |->
     tradingSignal("ema", "ema_bounce", bounceSignals[k], c)]
  \o [k \in 1..Len(zoneSignals) |->
     tradingSignal("sd", "supply_demand", zoneSignals[k], c)]

\* the bundle analyzeData returns
Bundle ==
  [emaData |-> emaData, vwapData |-> vwapData, macdData |-> macdData,
   supplyDemandZones |-> supplyDemandZones, emaBounceSignals |-> emaBounceSignals,
   supplyDemandSignals |-> supplyDemandSignals, allSignals |-> allSignals]

----------------------------------------------------------------------------
(* Arguments *)

MaxFree == 4
ExtraZones == 1
MaxBounceTail == 3
MaxTail == 2
MaxTicks == 1
MaxSeries == 5
MaxPeriod == 3
FlatCandles == 250

Shape(o, h, l, c, v) == [open |-> o, high |-> h, low |-> l, close |-> c, volume |-> v]

\* the candle of shape sh at index k of a one-minute series
Candle(sh, k) ==
  [open |-> sh.open, high |-> sh.high, low |-> sh.low, close |-> sh.close,
   volume |-> sh.volume, openTime |-> k * MinuteMs,
   closeTime |-> k * MinuteMs + MinuteMs - 1]

Candles(shapes) == [k \in 1..Len(shapes) |-> Candle(shapes[k], k - 1)]

SeqsUpTo(S, n) == UNION {[1..m -> S] : m \in 0..n}

Flat(p) == Shape(p, p, p, p, 100)

Repeat(sh, n) == [k \in 1..n |-> sh]

\* shapes of the zone detector's candles: flat, two pin bars with a lower wick,
\* a long upper wick, a wide bullish candle, and a malformed candle whose high
\* is below its low and its close
ZoneShapes ==
  {Flat(1000),
   Shape(1000, 1010, 975, 1010, 100),
   Shape(1000, 1110, 1000, 1000, 100),
   Shape(1100, 1110, 1075, 1110, 100),
   Shape(1120, 1130, 1000, 1130, 100),
   Shape(1005, 990, 995, 1010, 100)}

\* flat series of every length below the minimum, and series of at least the
\* minimum with MaxFree chosen candles from index 2 on
ShortZoneInputs ==
  {Repeat(Flat(1000), n) : n \in 0..(MinZoneCandles - 1)}
  \cup {Repeat(Flat(1000), 2) \o s \o Repeat(Flat(1000), MinZoneCandles - 2 - MaxFree) :
          s \in [1..MaxFree -> ZoneShapes]}

\* m medium demand pin bars at descending levels, each reached by a candle without
\* wicks, then (r > 0) a strong demand pin bar back at the level of the r-th
Level(j) == 3000 - 100 * j
MediumPin(j) == Shape(Level(j), Level(j) + 10, Level(j) - 25, Level(j) + 10, 100)
StrongPin(j) == Shape(Level(j) + 10, Level(j) + 10, Level(j) - 25, Level(j) + 10, 100)
Bridge(from, to) == Shape(from, Max2(from, to), Min2(from, to), to, 100)

RECURSIVE Pins(_, _)
Pins(j, m) ==
  IF j > m THEN << >>
  ELSE << Bridge(IF j = 1 THEN 3000 ELSE Level(j - 1) + 10, Level(j)), MediumPin(j) >>
       \o Pins(j + 1, m)

LongZoneInput(m, r) ==
  Repeat(Flat(3000), 2) \o Pins(1, m)
  \o (IF r = 0 THEN << >>
      ELSE << Bridge(Level(m) + 10, Level(r) + 10), StrongPin(r) >>)
  \o Repeat(Flat(Level(IF r = 0 THEN m ELSE r) + 10), 2)

LongZoneInputs ==
  {LongZoneInput(m, r) : m \in (MaxZones - 1)..(MaxZones + ExtraZones), r \in 0..2}

\* flat candles at 100 with, at the indices j and j + 1, a candle with high 102,
\* low 98, close 100 and a candle with open 101, high 105, low 99, close 105
EngulfingPrev == Shape(1000, 1020, 980, 1000, 100)
EngulfingCurrent == Shape(1010, 1050, 990, 1050, 100)

EngulfingInput(n, j) ==
  Repeat(Flat(1000), j) \o << EngulfingPrev, EngulfingCurrent >>
  \o Repeat(Flat(1000), n - j - 2)

EngulfingLengths == MinZoneCandles..(MinZoneCandles + MaxTail)

EngulfingInputs ==
  UNION {{EngulfingInput(n, j) : j \in 0..(n - 2)} : n \in EngulfingLengths}

ZoneCalls ==
  {[entry |-> "detectSupplyDemandZones", klineData |-> Candles(s), zonesArg |-> << >>,
    cfg |-> DefaultCfg] : s \in ShortZoneInputs \cup LongZoneInputs \cup EngulfingInputs}

\* shapes of a direct call of the bounce detector, with short periods: flat at
\* four levels (one without volume) and two candles that dip to 100 and close
\* at their high
BounceShapes ==
  {Flat(900),
   Flat(1000),
   Flat(1100),
   Shape(1200, 1200, 1200, 1200, 0),
   Shape(1300, 1300, 1000, 1300, 100),
   Shape(1100, 1100, 1000, 1100, 100)}

\* a flat start of up to slowLen candles, then MaxBounceTail chosen candles
BounceInputs ==
  {Repeat(Flat(1000), n) \o t : n \in 0..4, t \in SeqsUpTo(BounceShapes, MaxBounceTail)}

\* the candles of a rise, a fall and a second rise
WaveShapes == {Flat(900), Flat(1100), Shape(1100, 1100, 1000, 1100, 100)}

\* a flat start of slowLen candles, then MaxBounceTail + 1 candles of a wave
BounceWaves ==
  {Repeat(Flat(1000), 4) \o t : t \in [1..(MaxBounceTail + 1) -> WaveShapes]}

ShortCfg(maxWait) ==
  [fastLen |-> 2, medLen |-> 3, slowLen |-> 4, macdFast |-> 2, macdSlow |-> 3,
   macdSig |-> 2, tolPct |-> DefaultTolPct, maxWait |-> maxWait]

BounceCalls ==
  {[entry |-> "detectEMABounceSignal", klineData |-> Candles(s), zonesArg |-> << >>,
    cfg |-> ShortCfg(w)] : s \in BounceInputs \cup BounceWaves, w \in {0, 1}}

\* zones handed to a direct call of the zone-signal detector
ArgZones ==
  {[type |-> "demand", high |-> NumOf(101), low |-> NumOf(99), timestamp |-> MinuteMs - 1,
    strength |-> "strong", zoneType |-> "DBR", isValid |-> TRUE],
   [type |-> "supply", high |-> NumOf(102), low |-> NumOf(100), timestamp |-> MinuteMs - 1,
    strength |-> "weak", zoneType |-> "RBR", isValid |-> TRUE],
   [type |-> "demand", high |-> NumOf(101), low |-> NumOf(99), timestamp |-> MinuteMs - 1,
    strength |-> "medium", zoneType |-> "DBD", isValid |-> TRUE],
   [type |-> "supply", high |-> NumOf(102), low |-> NumOf(100), timestamp |-> MinuteMs - 1,
    strength |-> "strong", zoneType |-> "RBD", isValid |-> FALSE],
   [type |-> "supply", high |-> NumOf(106), low |-> NumOf(105), timestamp |-> MinuteMs - 1,
    strength |-> "medium", zoneType |-> "RBD", isValid |-> TRUE]}

SignalShapes == {Flat(1000), Flat(1200), Shape(1010, 1060, 990, 1050, 100)}

\* one or two chosen candles, the first possibly pushed out of the recent window
SignalInputs ==
  {<< >>}
  \cup {<<a>> \o Repeat(Flat(1200), n) \o <<b>> :
          a \in SignalShapes, b \in SignalShapes,
          n \in {0, RecentCandles - 2, RecentCandles - 1}}

SignalCalls ==
  {[entry |-> "detectSupplyDemandSignals", klineData |-> Candles(s), zonesArg |-> z,
    cfg |-> DefaultCfg] : s \in SignalInputs, z \in SeqsUpTo(ArgZones, 2)}

\* a history for analyzeData: flat with a step up and back down, then a free tail
History(n) ==
  [k \in 1..n |-> IF k - 1 >= 34 /\ k - 1 < 150 THEN Flat(1010) ELSE Flat(1000)]

\* the same history with one candle at 99 where the step up begins
HistoryDip(n) ==
  [k \in 1..n |-> IF k - 1 = 34 THEN Flat(990) ELSE History(n)[k]]

TailShapes == {Flat(1000), Shape(1000, 1100, 1000, 1100, 100)}

\* flat series at two prices, around the slow period and of FlatCandles candles
FlatInputs ==
  {Repeat(Flat(p), n) : p \in {1000, 1035},
                        n \in {DefaultSlowLen, DefaultSlowLen + 1, FlatCandles}}

\* short series of the minimum length for zones: flat at 100 with MaxTail
\* chosen candles from index 2 on
PatternInputs ==
  {Repeat(Flat(1000), 2) \o s \o Repeat(Flat(1000), MinZoneCandles - 2 - MaxTail) :
     s \in [1..MaxTail -> ZoneShapes]}

AnalyzeInputs ==
  {History(n) : n \in {0, MinZoneCandles - 1, DefaultSlowLen - 1}}
  \cup PatternInputs
  \cup {History(DefaultSlowLen) \o t : t \in SeqsUpTo(TailShapes, MaxTail)}
  \cup FlatInputs
  \cup {HistoryDip(DefaultSlowLen) \o t : t \in SeqsUpTo(TailShapes, MaxTail)}

AnalyzeCalls ==
  {[entry |-> "analyzeData", klineData |-> Candles(s), zonesArg |-> << >>,
    cfg |-> DefaultCfg] : s \in AnalyzeInputs}

NoArgs == [prices |-> << >>, period |-> 0, fastPeriod |-> 0, slowPeriod |-> 0,
           signalPeriod |-> 0]

\* price series and periods of a direct call of calculateEMA
PriceValues == {NumOf(100), NumOf(101), NumOf(103) + Scale \div 2}

EMACalls ==
  {[entry |-> "calculateEMA", klineData |-> << >>,
    args |-> [prices |-> s, period |-> p, fastPeriod |-> 0, slowPeriod |-> 0,
              signalPeriod |-> 0]] :
     s \in SeqsUpTo(PriceValues, MaxSeries), p \in 1..MaxPeriod}

\* price series and periods (fastPeriod <= slowPeriod) of a direct call of calculateMACD
MACDCalls ==
  {[entry |-> "calculateMACD", klineData |-> << >>,
    args |-> [prices |-> s, period |-> 0, fastPeriod |-> f[1], slowPeriod |-> f[2],
              signalPeriod |-> g]] :
     s \in SeqsUpTo({NumOf(100), NumOf(103) + Scale \div 2}, MaxSeries + 1),
     f \in {q \in (1..MaxPeriod) \X (1..MaxPeriod) : q[1] <= q[2] /\ q[1] < MaxPeriod},
     g \in 1..(MaxPeriod - 1)}

\* candles of a direct call of calculateVWAP: with and without volume
VWAPShapes ==
  {Flat(1000),
   Shape(1000, 1100, 900, 1030, 0),
   Shape(1010, 1020, 1000, 1020, 0),
   Shape(1000, 1050, 1000, 1040, 50)}

VWAPCalls ==
  {[entry |-> "calculateVWAP", klineData |-> Candles(s), args |-> NoArgs] :
     s \in SeqsUpTo(VWAPShapes, MaxFree)}

Context ==
  [exchange |-> "binance", tradingType |-> "spot", symbol |-> "BTCUSDT", timeframe |-> "1m"]

NoStep ==
  [index |-> 0, bullStack |-> FALSE, emaCrossUp |-> FALSE, bounce |-> FALSE,
   priceAboveVWAP |-> FALSE, macdBull |-> FALSE, buySignal |-> FALSE,
   waitBefore |-> FALSE, barsBefore |-> 0]

NoScan ==
  [ema9 |-> << >>, ema20 |-> << >>, ema200 |-> << >>, macdData |-> << >>,
   minLength |-> 0, startIndex |-> 0]

NoBundle == << >>

analyzing == entry = "analyzeData"

----------------------------------------------------------------------------
(* Calls *)

Start(call) ==
  /\ entry = call.entry
  /\ klineData = call.klineData
  /\ zonesArg = call.zonesArg
  /\ cfg = call.cfg
  /\ ctx = Context
  /\ now = Len(call.klineData) * MinuteMs
  /\ pc = CASE call.entry = "analyzeData" -> "indicators"
            [] call.entry = "detectSupplyDemandZones" -> "zones"
            [] call.entry = "detectEMABounceSignal" -> "bounce"
            [] call.entry = "detectSupplyDemandSignals" -> "signals"
  /\ emaData = << >>
  /\ vwapData = IF call.entry = "detectEMABounceSignal"
                THEN calculateVWAP(call.klineData) ELSE << >>
  /\ macdData = << >>
  /\ supplyDemandZones = << >>
  /\ emaBounceSignals = << >>
  /\ supplyDemandSignals = << >>
  /\ allSignals = << >>
  /\ scan = NoScan
  /\ i = 0
  /\ waitBounce = FALSE
  /\ barsWaited = 0
  /\ step = NoStep
  /\ fault = "none"
  /\ prior = NoBundle
  /\ args = NoArgs
  /\ emaValues = << >>

\* entry of a direct call of an indicator function
StartIndicator(call) ==
  /\ entry = call.entry
  /\ klineData = call.klineData
  /\ args = call.args
  /\ zonesArg = << >>
  /\ cfg = DefaultCfg
  /\ ctx = Context
  /\ now = Len(call.args.prices) * MinuteMs
  /\ pc = CASE call.entry = "calculateEMA" -> "ema"
            [] call.entry = "calculateVWAP" -> "vwap"
            [] call.entry = "calculateMACD" -> "macd"
  /\ emaValues = << >>
  /\ emaData = << >>
  /\ vwapData = << >>
  /\ macdData = << >>
  /\ supplyDemandZones = << >>
  /\ emaBounceSignals = << >>
  /\ supplyDemandSignals = << >>
  /\ allSignals = << >>
  /\ scan = NoScan
  /\ i = 0
  /\ waitBounce = FALSE
  /\ barsWaited = 0
  /\ step = NoStep
  /\ fault = "none"
  /\ prior = NoBundle

InitEMA == \E call \in EMACalls : StartIndicator(call)
InitVWAP == \E call \in VWAPCalls : StartIndicator(call)
InitMACD == \E call \in MACDCalls : StartIndicator(call)
InitZones == \E call \in ZoneCalls : Start(call)
InitBounce == \E call \in BounceCalls : Start(call)
InitSignals == \E call \in SignalCalls : Start(call)
InitAnalyze == \E call \in AnalyzeCalls : Start(call)

Init ==
  \/ InitZones \/ InitBounce \/ InitSignals \/ InitAnalyze
  \/ InitEMA \/ InitVWAP \/ InitMACD

\* a direct call of calculateEMA
CallEMA ==
  /\ pc = "ema"
  /\ emaValues' = calculateEMA(args.prices, args.period)
  /\ pc' = "done"
  /\ UNCHANGED <<args, entry, klineData, zonesArg, cfg, now, emaData, vwapData,
                 macdData, supplyDemandZones, emaBounceSignals, supplyDemandSignals,
                 allSignals, scan, i, waitBounce, barsWaited, step, ctx, fault, prior>>

\* a direct call of calculateVWAP
CallVWAP ==
  /\ pc = "vwap"
  /\ vwapData' = calculateVWAP(klineData)
  /\ pc' = "done"
  /\ UNCHANGED <<args, emaValues, entry, klineData, zonesArg, cfg, now, emaData,
                 macdData, supplyDemandZones, emaBounceSignals, supplyDemandSignals,
                 allSignals, scan, i, waitBounce, barsWaited, step, ctx, fault, prior>>

\* a direct call of calculateMACD
CallMACD ==
  /\ pc = "macd"
  /\ macdData' = calculateMACD(args.prices, args.fastPeriod, args.slowPeriod,
                               args.signalPeriod, now)
  /\ pc' = "done"
  /\ UNCHANGED <<args, emaValues, entry, klineData, zonesArg, cfg, now, emaData,
                 vwapData, supplyDemandZones, emaBounceSignals, supplyDemandSignals,
                 allSignals, scan, i, waitBounce, barsWaited, step, ctx, fault, prior>>

\* the clock advances before a call of calculateMACD reads it
Tick ==
  /\ analyzing
  /\ pc \in {"indicators", "bounce"}
  /\ now < Len(klineData) * MinuteMs + MaxTicks
  /\ now' = now + 1
  /\ UNCHANGED <<args, emaValues, entry, pc, klineData, zonesArg, cfg, emaData, vwapData, macdData,
                 supplyDemandZones, emaBounceSignals, supplyDemandSignals, allSignals,
                 scan, i, waitBounce, barsWaited, step, ctx, fault, prior>>

\* analyzeData: the indicator series
CalcIndicators ==
  /\ pc = "indicators"
  /\ emaData' = buildEmaData(klineData)
  /\ vwapData' = calculateVWAP(klineData)
  /\ macdData' = calculateMACD(closePrices(klineData), DefaultMacdFast,
                               DefaultMacdSlow, DefaultMacdSig, now)
  /\ pc' = "zones"
  /\ UNCHANGED <<args, emaValues, entry, klineData, zonesArg, cfg, now, supplyDemandZones,
                 emaBounceSignals, supplyDemandSignals, allSignals, scan, i,
                 waitBounce, barsWaited, step, ctx, fault, prior>>

DetectZones ==
  /\ pc = "zones"
  /\ supplyDemandZones' = detectSupplyDemandZones(klineData)
  /\ pc' = IF analyzing THEN "bounce" ELSE "done"
  /\ UNCHANGED <<args, emaValues, entry, klineData, zonesArg, cfg, now, emaData, vwapData, macdData,
                 emaBounceSignals, supplyDemandSignals, allSignals, scan, i,
                 waitBounce, barsWaited, step, ctx, fault, prior>>

afterScan == IF analyzing THEN "signals" ELSE "done"

\* detectEMABounceSignal up to its loop
BounceEnter ==
  /\ pc = "bounce"
  /\ emaBounceSignals' = << >>
  /\ waitBounce' = FALSE
  /\ barsWaited' = 0
  /\ step' = NoStep
  /\ IF Len(klineData) < cfg.slowLen
     THEN /\ pc' = afterScan
          /\ UNCHANGED <<scan, i>>
     ELSE /\ scan' = scanSetup(klineData, vwapData, cfg, now)
          /\ i' = 1
          /\ pc' = "scan"
  /\ UNCHANGED <<args, emaValues, entry, klineData, zonesArg, cfg, now, emaData, vwapData, macdData,
                 supplyDemandZones, supplyDemandSignals, allSignals, ctx, fault, prior>>

\* one iteration of the loop
ScanStep ==
  /\ pc = "scan"
  /\ i < scan.minLength
  /\ IF scanReadsInRange(klineData, scan, i)
     THEN LET r == scanIteration(klineData, vwapData, scan, cfg, i, waitBounce, barsWaited)
          IN /\ step' = r.locals
             /\ emaBounceSignals' = emaBounceSignals \o r.signals
             /\ waitBounce' = r.waitBounce
             /\ barsWaited' = r.barsWaited
             /\ i' = i + 1
             /\ UNCHANGED <<pc, fault>>
     ELSE /\ fault' = "outOfRange"
          /\ pc' = "fault"
          /\ UNCHANGED <<step, emaBounceSignals, waitBounce, barsWaited, i>>
  /\ UNCHANGED <<args, emaValues, entry, klineData, zonesArg, cfg, now, emaData, vwapData, macdData,
                 supplyDemandZones, supplyDemandSignals, allSignals, scan, ctx, prior>>

ScanReturn ==
  /\ pc = "scan"
  /\ i >= scan.minLength
  /\ pc' = afterScan
  /\ UNCHANGED <<args, emaValues, entry, klineData, zonesArg, cfg, now, emaData, vwapData, macdData,
                 supplyDemandZones, emaBounceSignals, supplyDemandSignals, allSignals,
                 scan, i, waitBounce, barsWaited, step, ctx, fault, prior>>

DetectSignals ==
  /\ pc = "signals"
  /\ supplyDemandSignals' =
       detectSupplyDemandSignals(klineData,
                                 IF analyzing THEN supplyDemandZones ELSE zonesArg)
  /\ pc' = IF analyzing THEN "combine" ELSE "done"
  /\ UNCHANGED <<args, emaValues, entry, klineData, zonesArg, cfg, now, emaData, vwapData, macdData,
                 supplyDemandZones, emaBounceSignals, allSignals, scan, i,
                 waitBounce, barsWaited, step, ctx, fault, prior>>

\* analyzeData: the merged list, and the return
Combine ==
  /\ pc = "combine"
  /\ allSignals' = combineSignals(emaBounceSignals, supplyDemandSignals, ctx)
  /\ pc' = "done"
  /\ UNCHANGED <<args, emaValues, entry, klineData, zonesArg, cfg, now, emaData, vwapData, macdData,
                 supplyDemandZones, emaBounceSignals, supplyDemandSignals, scan, i,
                 waitBounce, barsWaited, step, ctx, fault, prior>>

\* analyzeData is called once more with the same arguments
CallAgain ==
  /\ pc = "done"
  /\ analyzing
  /\ prior = NoBundle
  /\ prior' = << Bundle >>
  /\ pc' = "indicators"
  /\ emaData' = << >>
  /\ vwapData' = << >>
  /\ macdData' = << >>
  /\ supplyDemandZones' = << >>
  /\ emaBounceSignals' = << >>
  /\ supplyDemandSignals' = << >>
  /\ allSignals' = << >>
  /\ scan' = NoScan
  /\ i' = 0
  /\ waitBounce' = FALSE
  /\ barsWaited' = 0
  /\ step' = NoStep
  /\ UNCHANGED <<args, emaValues, entry, klineData, zonesArg, cfg, now, ctx, fault>>

Next ==
  \/ CallEMA
  \/ CallVWAP
  \/ CallMACD
  \/ Tick
  \/ CalcIndicators
  \/ DetectZones
  \/ BounceEnter
  \/ ScanStep
  \/ ScanReturn
  \/ DetectSignals
  \/ Combine
  \/ CallAgain

Spec == Init /\ [][Next]_vars

----------------------------------------------------------------------------
(* Properties *)

Range(f) == {f[k] : k \in DOMAIN f}

\* detectSupplyDemandZones has returned
ZonesReturned ==
  /\ entry \in {"analyzeData", "detectSupplyDemandZones"}
  /\ pc \notin {"indicators", "zones"}

\* analyzeData has returned
AnalyzeReturned == analyzing /\ pc = "done"

\* two bands of the same type that overlap
SameTypeOverlap(a, b) == a.type = b.type /\ a.low <= b.high /\ a.high >= b.low

StrengthRank(z) ==
  IF z.strength = "weak" THEN 1 ELSE IF z.strength = "medium" THEN 2 ELSE 3

Candidates == zoneCandidates(klineData, 2, Len(klineData) - 2)

\* C1: the zones returned by detectSupplyDemandZones hold no two zones of the same
\* type with overlapping bands, and of two overlapping same-type candidates of
\* different strength the weaker one is not in the output.
C1_NoOverlappingZones ==
  ZonesReturned =>
    /\ \A a, b \in 1..Len(supplyDemandZones) :
         a < b => ~SameTypeOverlap(supplyDemandZones[a], supplyDemandZones[b])
    /\ Len(klineData) >= MinZoneCandles =>
         \A a, b \in Range(Candidates) :
           SameTypeOverlap(a, b) /\ StrengthRank(a) < StrengthRank(b)
             => a \notin Range(supplyDemandZones)

\* C2: allSignals is chronologically ordered across both strategies.
C2_AllSignalsChronological ==
  AnalyzeReturned =>
    \A a, b \in 1..Len(allSignals) :
      a < b => allSignals[a].timestamp <= allSignals[b].timestamp

\* the index of the candle the k-th MACD point (from 0) corresponds to
MacdCandle(k) == DefaultMacdSlow + DefaultMacdSig - 2 + k

\* C3: analyzeData is a function of its arguments alone: a second call with the
\* same arguments returns the bundle the first call returned, and every MACD
\* point carries the close-time of its candle.
C3_AnalyzeDataPure ==
  AnalyzeReturned =>
    /\ prior # NoBundle => Bundle = prior[1]
    /\ \A k \in 1..Len(macdData) :
         macdData[k].timestamp = At(klineData, MacdCandle(k - 1)).closeTime

\* the candle of the scan's last iteration, and the moving averages at it
StepCandleIndex == Len(klineData) - scan.minLength + step.index
StepCandle == At(klineData, StepCandleIndex)
EmaAtStep(period) ==
  At(calculateEMA(closePrices(klineData), period), StepCandleIndex - (period - 1))

StepBullishStack ==
  /\ EmaAtStep(cfg.fastLen) > EmaAtStep(cfg.medLen)
  /\ EmaAtStep(cfg.medLen) > EmaAtStep(cfg.slowLen)

StepBounce ==
  LET fast == EmaAtStep(cfg.fastLen)
  IN /\ ParseFloat(StepCandle.low) <= fast + (fast * cfg.tolPct) \div (100 * Scale)
     /\ ParseFloat(StepCandle.close) > fast

StepAboveVWAP == ParseFloat(StepCandle.close) > At(vwapData, StepCandleIndex).vwap

\* the wait state the last iteration reached by its arm and abort transitions
StepBars ==
  IF step.emaCrossUp THEN 0
  ELSE IF step.waitBefore THEN step.barsBefore + 1 ELSE step.barsBefore

StepWaiting ==
  /\ step.emaCrossUp \/ step.waitBefore
  /\ StepBullishStack
  /\ ~(cfg.maxWait > 0 /\ StepBars > cfg.maxWait)

\* the last iteration appended a signal
StepAppended ==
  /\ Len(emaBounceSignals) > 0
  /\ emaBounceSignals[Len(emaBounceSignals)].timestamp = StepCandle.closeTime

\* C4: a scan step appends a buy signal exactly when, after its arm and abort
\* transitions, waiting is true and the bounce condition, close > VWAP and
\* oscillator > signal line all hold; a step that appends leaves {false, 0}.
C4_SignalExactlyWhenArmedAndConfirmed ==
  step.index > 0 =>
    /\ StepAppended <=> (StepWaiting /\ StepBounce /\ StepAboveVWAP /\ step.macdBull)
    /\ StepAppended => (waitBounce = FALSE /\ barsWaited = 0)

C4_Witness ==
  /\ step.index > 1
  /\ StepAppended
  /\ step.waitBefore
  /\ ~step.emaCrossUp

\* C5: when more than 20 zones survive consolidation, no zone dropped by the
\* truncation is later than a zone that was kept.
C5_TruncationKeepsMostRecent ==
  (ZonesReturned /\ Len(klineData) >= MinZoneCandles) =>
    LET all == consolidated(Candidates)
    IN Len(all) > MaxZones =>
         \A d \in 1..(Len(all) - MaxZones) :
           \A k \in 1..Len(supplyDemandZones) :
             all[d].timestamp <= supplyDemandZones[k].timestamp

\* C6: no call faults; with fewer than 10 candles there are no zones, and with
\* fewer candles than the slow period there are no bounce signals.
C6_TotalOnAnyLength ==
  /\ fault = "none"
  /\ pc # "fault"
  /\ Len(klineData) < MinZoneCandles => supplyDemandZones = << >>
  /\ Len(klineData) < cfg.slowLen => emaBounceSignals = << >>

C6_Witness ==
  \/ /\ AnalyzeReturned
     /\ Len(klineData) = DefaultSlowLen - 1
     /\ Len(supplyDemandZones) > 0
  \/ /\ AnalyzeReturned
     /\ Len(klineData) > DefaultSlowLen
     /\ step.index > 0

\* C7: every confidence of a bounce signal and of a zone signal is in [0, 100].
C7_ConfidenceInRange ==
  /\ \A k \in 1..Len(emaBounceSignals) :
       /\ emaBounceSignals[k].confidence >= 0
       /\ emaBounceSignals[k].confidence <= NumOf(100)
  /\ \A k \in 1..Len(supplyDemandSignals) :
       /\ supplyDemandSignals[k].confidence >= 0
       /\ supplyDemandSignals[k].confidence <= NumOf(100)

C7_Witness ==
  /\ \E k \in 1..Len(emaBounceSignals) : emaBounceSignals[k].confidence > NumOf(80)
  /\ \E k \in 1..Len(supplyDemandSignals) : supplyDemandSignals[k].confidence = NumOf(100)

\* the candles are well formed: low <= min(open, close), max(open, close) <= high
WellFormedCandles ==
  \A k \in 1..Len(klineData) :
    /\ klineData[k].low <= Min2(klineData[k].open, klineData[k].close)
    /\ Max2(klineData[k].open, klineData[k].close) <= klineData[k].high

\* C8: on well-formed candles every zone returned has high >= low.
C8_ZoneHighAtLeastLow ==
  (ZonesReturned /\ WellFormedCandles) =>
    \A k \in 1..Len(supplyDemandZones) :
      supplyDemandZones[k].high >= supplyDemandZones[k].low

C8_Witness ==
  /\ ZonesReturned
  /\ WellFormedCandles
  /\ \E k \in 1..Len(supplyDemandZones) :
       supplyDemandZones[k].type = "demand" /\ supplyDemandZones[k].strength = "medium"
  /\ \E k \in 1..Len(supplyDemandZones) :
       supplyDemandZones[k].type = "supply"

\* C9: after every scan step, waiting implies the bullish stack held at the step
\* and (maxWait > 0) barsWaited <= maxWait; not waiting implies barsWaited = 0;
\* with maxWait = 0 a wait ends only by a broken stack or a signal.
C9_WaitStateInvariant ==
  /\ ~waitBounce => barsWaited = 0
  /\ step.index > 0 =>
       /\ waitBounce => StepBullishStack
       /\ (waitBounce /\ cfg.maxWait > 0) => barsWaited <= cfg.maxWait
       /\ (cfg.maxWait = 0 /\ step.waitBefore /\ ~waitBounce)
            => (~StepBullishStack \/ StepAppended)

C9_Witness ==
  /\ waitBounce
  /\ cfg.maxWait > 0
  /\ barsWaited = cfg.maxWait

\* the (candle, zone) pairs of the claim, candle by candle and zone by zone
RecentStart == IF Len(klineData) > RecentCandles THEN Len(klineData) - RecentCandles ELSE 0

SignalZones == IF analyzing THEN supplyDemandZones ELSE zonesArg

PairHits(k, z) ==
  LET candle == klineData[k]
      zone == SignalZones[z]
  IN /\ zone.isValid
     /\ ParseFloat(candle.low) <= zone.high
     /\ ParseFloat(candle.high) >= zone.low
     /\ \/ zone.type = "demand" /\ ParseFloat(candle.close) > zone.low
        \/ zone.type = "supply" /\ ParseFloat(candle.close) < zone.high

Pairs ==
  {<<k, z>> \in ((RecentStart + 1)..Len(klineData)) \X (1..Len(SignalZones)) :
     PairHits(k, z)}

\* the position of the pair's signal in the output
PairPosition(p) ==
  Cardinality({q \in Pairs : q[1] < p[1] \/ (q[1] = p[1] /\ q[2] <= p[2])})

PairSignalOK(p, sig) ==
  LET candle == klineData[p[1]]
      zone == SignalZones[p[2]]
      width == zone.high - zone.low
  IN /\ sig.timestamp = candle.closeTime
     /\ sig.price = ParseFloat(candle.close)
     /\ sig.zone = zone
     /\ IF zone.type = "demand"
        THEN /\ sig.type = "buy"
             /\ sig.stopLoss = (zone.low * 99) \div 100
             /\ sig.takeProfit = zone.high + 2 * width
        ELSE /\ sig.type = "sell"
             /\ sig.stopLoss = (zone.high * 101) \div 100
             /\ sig.takeProfit = zone.low - 2 * width

SignalsReturned ==
  \/ entry = "detectSupplyDemandSignals" /\ pc = "done"
  \/ analyzing /\ pc \in {"combine", "done"}

\* C10: detectSupplyDemandSignals emits exactly one signal for each pair of a
\* candle among the last 50 and a valid zone that intersect with the close on
\* the right side of the zone, with the stated stop and target, and no other.
C10_OneSignalPerHit ==
  SignalsReturned =>
    /\ Len(supplyDemandSignals) = Cardinality(Pairs)
    /\ \A p \in Pairs : PairSignalOK(p, supplyDemandSignals[PairPosition(p)])

C10_Witness ==
  /\ entry = "detectSupplyDemandSignals"
  /\ pc = "done"
  /\ Len(klineData) > RecentCandles
  /\ Len(SignalZones) = 2
  /\ PairHits(Len(klineData), 1)
  /\ PairHits(Len(klineData), 2)
  /\ \E z \in 1..Len(SignalZones) :
       /\ SignalZones[z].isValid
       /\ ParseFloat(klineData[1].low) <= SignalZones[z].high
       /\ ParseFloat(klineData[1].high) >= SignalZones[z].low

\* a direct call of calculateEMA has returned
EMAReturned == entry = "calculateEMA" /\ pc = "done"

RECURSIVE Total(_)
Total(s) == IF s = << >> THEN 0 ELSE s[1] + Total(Tail(s))

\* C11: calculateEMA returns the empty list when the data are shorter than the
\* period; otherwise len(data) - period + 1 values, the first the simple average
\* of the first period elements, each later one data[i]*a + previous*(1-a) with
\* a = 2/(period+1).
C11_EMALengthAndRecurrence ==
  EMAReturned =>
    LET data == args.prices
        period == args.period
    IN IF Len(data) < period THEN emaValues = << >>
       ELSE /\ Len(emaValues) = Len(data) - period + 1
            /\ emaValues[1] = Total(SubSeq(data, 1, period)) \div period
            /\ \A k \in 2..Len(emaValues) :
                 emaValues[k] =
                   (data[period + k - 1] * 2 + emaValues[k - 1] * (period - 1))
                     \div (period + 1)

C11_Witness ==
  /\ EMAReturned
  /\ args.period = 3
  /\ Len(emaValues) = 3
  /\ emaValues[1] # emaValues[2]
  /\ emaValues[2] # emaValues[3]

ConstantSeries(s) == \A k \in 1..Len(s) : s[k] = s[1]

\* C12: on a constant series at least as long as the period every value
\* calculateEMA returns is that constant.
C12_EMAOfConstantIsConstant ==
  (EMAReturned /\ ConstantSeries(args.prices) /\ Len(args.prices) >= args.period) =>
    /\ Len(emaValues) >= 1
    /\ \A k \in 1..Len(emaValues) : emaValues[k] = args.prices[1]

C12_Witness ==
  /\ EMAReturned
  /\ args.period = 2
  /\ Len(emaValues) = 4
  /\ ConstantSeries(args.prices)
  /\ args.prices[1] = NumOf(103) + Scale \div 2

\* calculateVWAP has just returned into vwapData
VWAPReturned ==
  \/ entry = "calculateVWAP" /\ pc = "done"
  \/ entry = "detectEMABounceSignal" /\ pc = "bounce"
  \/ analyzing /\ pc = "zones"

\* the volume of the candles at the indices 0 .. k - 1
VolumeUpTo(k) == SumRange([j \in 1..k |-> ParseFloat(klineData[j].volume)], 0, k)

TypicalPrice(candle) ==
  (ParseFloat(candle.high) + ParseFloat(candle.low) + ParseFloat(candle.close)) \div 3

\* C13: calculateVWAP returns one point per candle, in order, and a point whose
\* cumulative volume is zero is the typical price of its candle.
C13_VWAPPointPerCandle ==
  VWAPReturned =>
    /\ Len(vwapData) = Len(klineData)
    /\ \A k \in 1..Len(vwapData) :
         /\ vwapData[k].timestamp = klineData[k].closeTime
         /\ VolumeUpTo(k) = 0 => vwapData[k].vwap = TypicalPrice(klineData[k])

C13_Witness ==
  /\ entry = "calculateVWAP"
  /\ pc = "done"
  /\ Len(vwapData) = 4
  /\ VolumeUpTo(2) = 0
  /\ VolumeUpTo(3) > 0
  /\ vwapData[1].vwap # vwapData[2].vwap
  /\ vwapData[4].vwap # TypicalPrice(klineData[4])

\* a direct call of calculateMACD has returned
MACDReturned == entry = "calculateMACD" /\ pc = "done"

\* the EMA of the given period at the price index idx
EmaAtPrice(prices, period, idx) == At(calculateEMA(prices, period), idx - (period - 1))

\* fast EMA minus slow EMA at the price index idx
Oscillator(idx) ==
  EmaAtPrice(args.prices, args.fastPeriod, idx)
    - EmaAtPrice(args.prices, args.slowPeriod, idx)

\* the differences at the price indices slowPeriod - 1 .. len - 1
OscillatorSeries ==
  [k \in 1..(Len(args.prices) - args.slowPeriod + 1) |->
     Oscillator(args.slowPeriod - 1 + k - 1)]

\* C14: for fast <= slow, point k of calculateMACD has macd = fast EMA - slow EMA
\* at the price index slow + signal - 2 + k, signal = the k-th value of the
\* signal-period EMA of the differences, histogram = macd - signal; the result
\* is empty when the prices are fewer than slow + signal - 1.
C14_MACDAligned ==
  (MACDReturned /\ args.fastPeriod <= args.slowPeriod) =>
    IF Len(args.prices) < args.slowPeriod + args.signalPeriod - 1
    THEN macdData = << >>
    ELSE \A k \in 0..(Len(macdData) - 1) :
           /\ At(macdData, k).macd
                = Oscillator(args.slowPeriod + args.signalPeriod - 2 + k)
           /\ At(macdData, k).signal
                = At(calculateEMA(OscillatorSeries, args.signalPeriod), k)
           /\ At(macdData, k).histogram
                = At(macdData, k).macd - At(macdData, k).signal

C14_Witness ==
  /\ MACDReturned
  /\ args.fastPeriod < args.slowPeriod
  /\ args.signalPeriod = 2
  /\ Len(macdData) >= 2
  /\ At(macdData, 0).histogram # 0
  /\ At(macdData, 1).macd # At(macdData, 0).macd

\* C15: in a flat series of at least 10 candles at 100, a candle with close 100,
\* high 102, low 98 followed by a candle with open 101, close 105, low 99,
\* high 105, both interior (not among the first two or the last two), gives
\* exactly one zone: demand, strong, low 98, high 105.
C15_BullishEngulfingScenario ==
  \A n \in EngulfingLengths : \A j \in 2..(n - 4) :
    (/\ entry = "detectSupplyDemandZones"
     /\ pc = "done"
     /\ klineData = Candles(EngulfingInput(n, j)))
    => /\ Len(supplyDemandZones) = 1
       /\ supplyDemandZones[1].type = "demand"
       /\ supplyDemandZones[1].strength = "strong"
       /\ supplyDemandZones[1].low = NumOf(98)
       /\ supplyDemandZones[1].high = NumOf(105)

C15_Witness ==
  /\ entry = "detectSupplyDemandZones"
  /\ pc = "done"
  /\ klineData = Candles(EngulfingInput(MinZoneCandles + 1, 4))
  /\ Len(supplyDemandZones) = 1

\* every candle has open = high = low = close = the same price
FlatSeries(kl) ==
  /\ Len(kl) >= 1
  /\ \A k \in 1..Len(kl) :
       /\ kl[k].open = kl[1].open
       /\ kl[k].high = kl[1].open
       /\ kl[k].low = kl[1].open
       /\ kl[k].close = kl[1].open

StrengthBonus(zone) ==
  CASE zone.strength = "strong" -> 30
    [] zone.strength = "medium" -> 15
    [] zone.strength = "weak" -> 0

ReversalTag(zone) == zone.zoneType \in {"DBR", "RBD"}

\* C17: the confidence of a zone signal is min(100, 50 + 30 / 15 / 0 by strength
\* + 20 for the tags DBR and RBD): 100 for a strong reversal zone, 50 for a weak
\* zone with the tag RBR or DBD.
C17_ZoneConfidenceFormula ==
  \A k \in 1..Len(supplyDemandSignals) :
    LET s == supplyDemandSignals[k]
    IN /\ s.confidence
            = NumOf(Min2(100, 50 + StrengthBonus(s.zone)
                                 + (IF ReversalTag(s.zone) THEN 20 ELSE 0)))
       /\ (s.zone.strength = "strong" /\ ReversalTag(s.zone)) => s.confidence = NumOf(100)
       /\ (s.zone.strength = "weak" /\ ~ReversalTag(s.zone)) => s.confidence = NumOf(50)

C17_Witness ==
  /\ entry = "detectSupplyDemandSignals"
  /\ pc = "done"
  /\ \E k \in 1..Len(supplyDemandSignals) :
       /\ supplyDemandSignals[k].zone.strength = "weak"
       /\ supplyDemandSignals[k].zone.zoneType = "RBR"
       /\ supplyDemandSignals[k].confidence = NumOf(50)
  /\ \E k \in 1..Len(supplyDemandSignals) :
       /\ supplyDemandSignals[k].zone.strength = "medium"
       /\ supplyDemandSignals[k].zone.zoneType = "DBD"
       /\ supplyDemandSignals[k].confidence = NumOf(65)

\* C18: detectSupplyDemandZones returns at most 20 zones.
C18_AtMostTwentyZones ==
  ZonesReturned => Len(supplyDemandZones) <= MaxZones

C18_Witness ==
  /\ ZonesReturned
  /\ Len(klineData) >= MinZoneCandles
  /\ Len(consolidated(Candidates)) > MaxZones
  /\ Len(supplyDemandZones) = MaxZones

\* C19: every signal of detectEMABounceSignal is a buy and records bullishStack,
\* priceAboveVWAP, macdBullish and bounceConfirmed as true.
C19_BounceSignalsAreBuys ==
  \A k \in 1..Len(emaBounceSignals) :
    /\ emaBounceSignals[k].type = "buy"
    /\ emaBounceSignals[k].bullishStack
    /\ emaBounceSignals[k].priceAboveVWAP
    /\ emaBounceSignals[k].macdBullish
    /\ emaBounceSignals[k].bounceConfirmed

C19_Witness ==
  /\ entry = "detectEMABounceSignal"
  /\ pc = "done"
  /\ Len(emaBounceSignals) = 1
  /\ emaBounceSignals[1].bullishStack

\* the MACD point of the candle of the scan's last iteration
StepMacdPoint ==
  At(scan.macdData, StepCandleIndex - (cfg.macdSlow + cfg.macdSig - 2))

\* C20: with the default periods, the MACD point a step of the bounce scan
\* compares is the MACD point of the step's candle, so the oscillator filter of
\* the step is the comparison of that point's macd and signal.
C20_ScanReadsMacdOfStepCandle ==
  (analyzing /\ step.index > 0) =>
    /\ MacdCandle(scanMacdIndex(scan, step.index)) = StepCandleIndex
    /\ step.macdBull = (StepMacdPoint.macd > StepMacdPoint.signal)

\* the candle of loop index k of the bounce scan, and the averages at a candle
ScanCandle(k) == Len(klineData) - scan.minLength + k

EmaAtCandle(period, c) ==
  At(calculateEMA(closePrices(klineData), period), c - (period - 1))

\* the cross-up edge and the bullish stack at loop index k
CrossUpEdgeAt(k) ==
  LET c == ScanCandle(k)
  IN /\ EmaAtCandle(cfg.fastLen, c - 1) <= EmaAtCandle(cfg.medLen, c - 1)
     /\ EmaAtCandle(cfg.fastLen, c) > EmaAtCandle(cfg.medLen, c)
     /\ EmaAtCandle(cfg.fastLen, c) > EmaAtCandle(cfg.slowLen, c)

BullishStackAt(k) ==
  LET c == ScanCandle(k)
  IN /\ EmaAtCandle(cfg.fastLen, c) > EmaAtCandle(cfg.medLen, c)
     /\ EmaAtCandle(cfg.medLen, c) > EmaAtCandle(cfg.slowLen, c)

\* the loop index at which the j-th bounce signal was emitted (0 before the first)
SignalStep(j) ==
  IF j = 0 THEN 0
  ELSE CHOOSE k \in 1..(scan.minLength - 1) :
         At(klineData, ScanCandle(k)).closeTime = emaBounceSignals[j].timestamp

\* the cross-up edges after the signal before the j-th and up to the j-th
EdgesBefore(j) ==
  {k \in (SignalStep(j - 1) + 1)..SignalStep(j) : CrossUpEdgeAt(k)}

LastEdgeBefore(j) ==
  CHOOSE e \in EdgesBefore(j) : \A k \in EdgesBefore(j) : k <= e

\* C21: each bounce signal is preceded by its own cross-up edge, strictly after
\* the step of the signal before it and no later than its own step; when
\* maxWait > 0 the signal comes at most maxWait steps after the most recent
\* edge, and the bullish stack holds at every step from that edge to the signal.
C21_SignalFollowsItsOwnEdge ==
  \A j \in 1..Len(emaBounceSignals) :
    /\ SignalStep(j - 1) < SignalStep(j)
    /\ EdgesBefore(j) # {}
    /\ cfg.maxWait > 0 => SignalStep(j) - LastEdgeBefore(j) <= cfg.maxWait
    /\ \A k \in LastEdgeBefore(j)..SignalStep(j) : BullishStackAt(k)

C21_Witness ==
  /\ Len(emaBounceSignals) >= 2
  /\ cfg.maxWait > 0
  /\ \E j \in 1..Len(emaBounceSignals) :
       SignalStep(j) - LastEdgeBefore(j) = cfg.maxWait

\* C22: in the result of analyzeData no zone signal precedes the zone it is
\* based on: signal.timestamp >= signal.zone.timestamp for every zone signal.
C22_NoSignalBeforeItsZone ==
  AnalyzeReturned =>
    \A k \in 1..Len(supplyDemandSignals) :
      supplyDemandSignals[k].timestamp >= supplyDemandSignals[k].zone.timestamp

\* C23: within one analyzeData call on candles with strictly ascending
\* close-times, the ids of allSignals are pairwise distinct.
C23_SignalIdsDistinct ==
  (AnalyzeReturned /\ \A a, b \in 1..Len(klineData) :
                        a < b => klineData[a].closeTime < klineData[b].closeTime) =>
    \A a, b \in 1..Len(allSignals) : a # b => allSignals[a].id # allSignals[b].id
====
